---- MODULE Spec2Model ----
(***************************************************************************)
(* A model of analyze_nexus_logs.py: the per-line extraction of a request  *)
(* record (the two regular expressions of analyze_logs), the hybrid format *)
(* classifier (categorize_request over get_format_rules), the three        *)
(* tallies analyze_logs folds the lines into, print_results, and main's    *)
(* error handling.  Text is modelled by TLA+ strings and the regular       *)
(* expressions by scanners that walk the line the way the patterns do.     *)
(***************************************************************************)
EXTENDS Integers, Sequences, FiniteSets, TLC

VARIABLES
    pc,                 \* where main is: "main", "open", "loop", "report", "exit"
    argc,               \* len(sys.argv)
    fs,                 \* what open(logfile) will do: "ok", "missing", "denied"
    f,                  \* the lines read from the file so far, in file order
    line_num,           \* enumerate(f, 1): the number of the last line read
    match,              \* local of analyze_logs: the last request_pattern.search result
    format_type,        \* local of analyze_logs: the last label computed
    ip_match,           \* local of analyze_logs: the last ip_pattern.match result
    ip_calls,           \* how many times ip_pattern.match has been called
    repo_counter,       \* Counter(): repository name -> count
    format_counter,     \* defaultdict(int): format label -> count
    ip_format_counter,  \* defaultdict(Counter): format label -> (client -> count)
    stdout,             \* what has been printed, as a sequence of message tags
    exit_code           \* -1 while running, then the process's exit status

vars == << pc, argc, fs, f, line_num, match, format_type, ip_match, ip_calls,
           repo_counter, format_counter, ip_format_counter, stdout, exit_code >>

counters == << repo_counter, format_counter, ip_format_counter >>

-----------------------------------------------------------------------------
(* Bounds of the model. *)

MaxLines == 3

-----------------------------------------------------------------------------
(* Text. *)

Ch(s, i) == IF i >= 1 /\ i <= Len(s) THEN SubSeq(s, i, i) ELSE ""

StartsAt(s, i, lit) ==
    /\ i >= 1
    /\ i + Len(lit) - 1 <= Len(s)
    /\ SubSeq(s, i, i + Len(lit) - 1) = lit

\* Python's `sub in s`.
Contains(sub, s) == \E i \in 1..(Len(s) - Len(sub) + 1) : StartsAt(s, i, sub)

UpperLetters == { "A","B","C","D","E","F","G","H","I","J","K","L","M",
                  "N","O","P","Q","R","S","T","U","V","W","X","Y","Z" }

LowerOf == [ A |-> "a", B |-> "b", C |-> "c", D |-> "d", E |-> "e", F |-> "f",
             G |-> "g", H |-> "h", I |-> "i", J |-> "j", K |-> "k", L |-> "l",
             M |-> "m", N |-> "n", O |-> "o", P |-> "p", Q |-> "q", R |-> "r",
             S |-> "s", T |-> "t", U |-> "u", V |-> "v", W |-> "w", X |-> "x",
             Y |-> "y", Z |-> "z" ]

RECURSIVE lower(_)
\* str.lower(), on ASCII text.
lower(s) ==
    IF s = "" THEN ""
    ELSE LET c == Ch(s, 1)
         IN  (IF c \in UpperLetters THEN LowerOf[c] ELSE c) \o lower(Tail(s))

\* The character classes of the two patterns, named by their pattern text.
InClass(cls, c) ==
    CASE cls = "[A-Z]"  -> c \in UpperLetters
      [] cls = "\\d"    -> c \in { "0","1","2","3","4","5","6","7","8","9" }
      [] cls = "\\s"    -> c \in { " ", "\t", "\n", "\r", "\f" }
      [] cls = "\\S"    -> c \notin { " ", "\t", "\n", "\r", "\f" }
      [] cls = "[^/]"   -> c # "/"
      [] cls = "[^\"]"  -> c # "\""

IsSpace(c) == InClass("\\s", c)

\* Where the longest run of characters of a class that starts at i ends: the
\* index of the first character from i on that is not in the class (Len(s) + 1
\* when the run reaches the end of s).  A greedy X* or X+ followed by something
\* X excludes matches exactly this run.
RunEnd(s, i, cls) ==
    CHOOSE j \in i..(Len(s) + 1) :
        /\ (j = Len(s) + 1 \/ ~InClass(cls, Ch(s, j)))
        /\ \A k \in i..(j - 1) : InClass(cls, Ch(s, k))

-----------------------------------------------------------------------------
(* The two regular expressions of analyze_logs. *)

\* A failed search or match (Python's None).
None == [ ok |-> FALSE, method |-> "", request_path |-> "", repo_name |-> "",
          user_agent |-> "" ]

\* request_pattern, tried at position i of the line:
\*   "([A-Z]+) (/repository/([^/]+)/[^\s]*) HTTP/[^"]*"
\*   \s+\d+\s+\S+\s+\S+\s+\S+\s+"([^"]*)"
request_pattern_at(line, i) ==
    LET m1 == i + 1                                 \* group 1 starts after the quote
        m2 == RunEnd(line, m1, "[A-Z]")             \* [A-Z]+
        p1 == m2 + 1                                \* group 2 starts after the space
        r1 == p1 + Len("/repository/")              \* group 3 starts
        r2 == RunEnd(line, r1, "[^/]")              \* [^/]+
        p2 == RunEnd(line, r2 + 1, "\\S")           \* [^\s]*
        h1 == p2 + Len(" HTTP/")
        h2 == RunEnd(line, h1, "[^\"]")             \* [^"]*
        s1 == RunEnd(line, h2 + 1, "\\s")           \* \s+
        d1 == RunEnd(line, s1, "\\d")               \* \d+  (status)
        s2 == RunEnd(line, d1, "\\s")               \* \s+
        f1 == RunEnd(line, s2, "\\S")               \* \S+
        s3 == RunEnd(line, f1, "\\s")               \* \s+
        f2 == RunEnd(line, s3, "\\S")               \* \S+
        s4 == RunEnd(line, f2, "\\s")               \* \s+
        f3 == RunEnd(line, s4, "\\S")               \* \S+
        s5 == RunEnd(line, f3, "\\s")               \* \s+
        u1 == s5 + 1                                \* group 4 starts after the quote
        u2 == RunEnd(line, u1, "[^\"]")             \* [^"]*
        ok == /\ Ch(line, i) = "\""
              /\ m2 > m1
              /\ StartsAt(line, m2, " /repository/")
              /\ r2 > r1
              /\ Ch(line, r2) = "/"
              /\ StartsAt(line, p2, " HTTP/")
              /\ Ch(line, h2) = "\""
              /\ s1 > h2 + 1
              /\ d1 > s1
              /\ s2 > d1
              /\ f1 > s2
              /\ s3 > f1
              /\ f2 > s3
              /\ s4 > f2
              /\ f3 > s4
              /\ s5 > f3
              /\ Ch(line, s5) = "\""
              /\ Ch(line, u2) = "\""
    IN  IF ok
        THEN [ ok           |-> TRUE,
               method       |-> SubSeq(line, m1, m2 - 1),
               request_path |-> SubSeq(line, p1, p2 - 1),
               repo_name    |-> SubSeq(line, r1, r2 - 1),
               user_agent   |-> SubSeq(line, u1, u2 - 1) ]
        ELSE None

\* request_pattern.search(line): the match at the leftmost position that has one.
request_pattern_search(line) ==
    LET starts == { i \in 1..Len(line) : request_pattern_at(line, i).ok }
    IN  IF starts = {} THEN None
        ELSE request_pattern_at(line, CHOOSE i \in starts : \A j \in starts : i <= j)

\* A slip: ip_pattern.search(line), which skips leading whitespace.
ip_pattern_search(line) ==
    LET b == RunEnd(line, 1, "\\s")
        e == RunEnd(line, b, "\\S")
    IN  IF e > b THEN [ ok |-> TRUE, group1 |-> SubSeq(line, b, e - 1) ]
        ELSE [ ok |-> FALSE, group1 |-> "" ]

\* ip_pattern.match(line), ^(\S+): the leading run of non-whitespace.
ip_pattern_match(line) ==
    LET e == RunEnd(line, 1, "\\S")
    IN  IF e > 1 THEN [ ok |-> TRUE, group1 |-> SubSeq(line, 1, e - 1) ]
        ELSE [ ok |-> FALSE, group1 |-> "" ]

-----------------------------------------------------------------------------
(* The rule table and the classifier. *)

\* get_format_rules(): the dict's items, in insertion order.
get_format_rules ==
    << [ name          |-> "Maven",
         user_agents   |-> << "Apache-Maven", "maven" >>,
         file_patterns |-> << "maven-metadata.xml", ".pom", ".jar", ".war", ".ear" >>,
         repo_patterns |-> << "maven", "snapshots", "releases" >> ],
       [ name          |-> "npm",
         user_agents   |-> << "npm/", "yarn/", "pnpm/" >>,
         file_patterns |-> << "package.json", ".tgz", "/-/" >>,
         repo_patterns |-> << "npm" >> ],
       [ name          |-> "Docker",
         user_agents   |-> << "docker/", "containerd/" >>,
         file_patterns |-> << "/v2/", "/manifests/", "/blobs/" >>,
         repo_patterns |-> << "docker" >> ],
       [ name          |-> "NuGet",
         user_agents   |-> << "NuGet" >>,
         file_patterns |-> << ".nupkg", ".nuspec", "/Packages(" >>,
         repo_patterns |-> << "nuget" >> ],
       [ name          |-> "PyPI",
         user_agents   |-> << "pip/", "twine/", "python-requests" >>,
         file_patterns |-> << ".whl", ".egg", "/simple/", "/packages/" >>,
         repo_patterns |-> << "pypi", "python" >> ],
       [ name          |-> "P2/Eclipse",
         user_agents   |-> << "p2/", "Eclipse" >>,
         file_patterns |-> << "content.jar", "artifacts.jar", ".jar" >>,
         repo_patterns |-> << "p2", "eclipse" >> ] >>

\* any(p.lower() in text for p in patterns)
any_in(patterns, text) ==
    \E k \in 1..Len(patterns) : Contains(lower(patterns[k]), text)

\* A slip: the tiers in priority order across all formats (every format's
\* user-agent tier, then every format's path tier, then every repository tier).
categorize_tier_major(rules, k, repo_lower, user_agent_lower, path_lower) ==
    LET ua == { i \in k..Len(rules) : any_in(rules[i].user_agents, user_agent_lower) }
        fp == { i \in k..Len(rules) : any_in(rules[i].file_patterns, path_lower) }
        rp == { i \in k..Len(rules) : any_in(rules[i].repo_patterns, repo_lower) }
        first(S) == CHOOSE i \in S : \A j \in S : i <= j
    IN  IF ua # {} THEN rules[first(ua)].name
        ELSE IF fp # {} THEN rules[first(fp)].name
        ELSE IF rp # {} THEN rules[first(rp)].name
        ELSE "Other"

RECURSIVE categorize_from(_, _, _, _, _)
\* The for loop of categorize_request from the k-th rule on.
categorize_from(rules, k, repo_lower, user_agent_lower, path_lower) ==
    IF k > Len(rules) THEN "Other"
    ELSE IF any_in(rules[k].user_agents, user_agent_lower) THEN rules[k].name
    ELSE IF any_in(rules[k].file_patterns, path_lower) THEN rules[k].name
    ELSE IF any_in(rules[k].repo_patterns, repo_lower) THEN rules[k].name
    ELSE categorize_from(rules, k + 1, repo_lower, user_agent_lower, path_lower)

\* A slip: P2/Eclipse tried before the other formats.
categorize_request_p2_first(repo_name, user_agent, request_path) ==
    categorize_from(<< get_format_rules[6] >> \o SubSeq(get_format_rules, 1, 5), 1,
                    lower(repo_name), lower(user_agent), lower(request_path))

categorize_request(repo_name, user_agent, request_path) ==
    categorize_from(get_format_rules, 1,
                    lower(repo_name), lower(user_agent), lower(request_path))

-----------------------------------------------------------------------------
(* Inputs. *)

\* The log lines a file is made of, as the file iterator yields them.
Lines ==
    { "10.0.0.1 - - [1] \"GET /repository/internal-libs/com/foo/1.0/foo-1.0.jar HTTP/1.1\" 200 - 1024 5 \"Apache-Maven/3.8.1\" [qtp]\n",
      "10.0.0.1 - - [1] \"GET /favicon.ico HTTP/1.1\" 200 - 318 1 \"Mozilla/5.0\" [qtp]\n",
      " 10.0.0.2 - - [2] \"GET /repository/npm-proxy/lodash/-/lodash-4.17.21.tgz HTTP/1.1\" 200 - 512 3 \"npm/8.1.0\" [qtp]\n",
      "10.0.0.2 - - [3] \"GET /repository/misc/readme.txt HTTP/1.1\" 404 - 0 1 \"curl/8.0\" [qtp]\n",
      "10.0.0.1 - - [4] \"PUT /repository/maven-npm-hybrid/a/b.txt HTTP/1.1\" 201 - 7 2 \"\" [qtp]\n",
      "10.0.0.3 - - [5] \"GET /repository/eclipse-updates/content.jar HTTP/1.1\" 200 - 9 1 \"p2/1.0\" [qtp]\n",
      "\n",
      "\t10.0.0.1 - - [9] \"GET /repository/releases/a/a-1.0.pom HTTP/1.1\" 200 - 3 1 \"Apache-Maven/3.8.1\" [qtp]\n",
      "10.0.0.3 - - [6] \"GET /repository/p2-site/index.html HTTP/1.1\" 200 - 9 1 \"Eclipse/4.2\" [qtp]\n",
      "10.0.0.4 - - [7] \"GET /repository/misc/ HTTP/1.1\" 200 - 9 \"curl/8.0\"\n",
      "10.0.0.2 - - [8] \"HEAD /repository/docker-hosted/v2/ HTTP/1.1\" 200 - 0 1 \"docker/24.0\" [qtp]" }

\* The arguments categorize_request is applied to on its own.
RepoNames  == { "internal-libs", "my-Maven", "maven-npm-hybrid", "npm-proxy",
                "p2-site", "python-eclipse-mirror", "misc" }
UserAgents == { "", "npm/8.1.0", "Apache-Maven/3.8.1", "p2/1.0", "Eclipse/4.2",
                "pip/23.0", "curl/8.0" }
Paths      == { "/x/readme.txt", "/x/content.jar", "/x/artifacts.jar",
                "/x/LIB.JAR", "/x/-/pkg.tgz", "/x/simple/foo/", "/x/Packages(Id='a')" }

-----------------------------------------------------------------------------
(* The tallies. *)

\* Counter() and the two defaultdicts, empty.
Empty == [ k \in {} |-> 0 ]

\* A slip: m[k] = 1.
Incr_assign1(m, k) ==
    [ x \in (DOMAIN m) \cup {k} |-> IF x = k THEN 1 ELSE m[x] ]

\* m[k] += 1 on a Counter or a defaultdict(int): an absent key counts from 0.
Incr(m, k) ==
    [ x \in (DOMAIN m) \cup {k} |->
        IF x = k THEN (IF k \in DOMAIN m THEN m[k] ELSE 0) + 1 ELSE m[x] ]

\* d[k] on a defaultdict(Counter): an absent key is inserted with an empty Counter.
defaultdict_getitem(d, k) ==
    [ x \in (DOMAIN d) \cup {k} |-> IF x \in DOMAIN d THEN d[x] ELSE Empty ]

\* A slip: ip_format_counter[format_type] = Counter({ip_address: 1}).
record_client_overwrite(d, label, ip_address) ==
    [ x \in (DOMAIN d) \cup {label} |->
        IF x = label THEN [ c \in {ip_address} |-> 1 ] ELSE d[x] ]

\* ip_format_counter[format_type][ip_address] += 1
record_client(d, label, ip_address) ==
    LET e == defaultdict_getitem(d, label)
    IN  [ e EXCEPT ![label] = Incr(e[label], ip_address) ]

\* A slip: repo_counter[repo_name] = 1.
record_repository_assign(c, repo_name) ==
    [ x \in (DOMAIN c) \cup {repo_name} |-> IF x = repo_name THEN 1 ELSE c[x] ]

\* repo_counter[repo_name] += 1
record_repository(c, repo_name) == Incr(c, repo_name)

\* A slip: the catch-all label is not counted.
record_format_skip_other(c, label) ==
    IF label = "Other" THEN c
    ELSE [ x \in (DOMAIN c) \cup {label} |->
             IF x = label THEN (IF label \in DOMAIN c THEN c[label] ELSE 0) + 1
             ELSE c[x] ]

\* format_counter[format_type] += 1
record_format(c, label) == Incr(c, label)

RECURSIVE SumValues(_)
\* sum(m.values())
SumValues(m) ==
    IF DOMAIN m = {} THEN 0
    ELSE LET k == CHOOSE x \in DOMAIN m : TRUE
         IN  m[k] + SumValues([ x \in (DOMAIN m) \ {k} |-> m[x] ])

-----------------------------------------------------------------------------
(* The program. *)

ProgressEvery == 100000

Init ==
    /\ pc = "main"
    /\ argc \in { 1, 2 }
    /\ fs \in { "ok", "missing", "denied" }
    /\ f = << >>
    /\ line_num = 0
    /\ match = None
    /\ format_type = ""
    /\ ip_match = [ ok |-> FALSE, group1 |-> "" ]
    /\ ip_calls = 0
    /\ repo_counter = Empty
    /\ format_counter = Empty
    /\ ip_format_counter = Empty
    /\ stdout = << >>
    /\ exit_code = -1

\* main without a log file argument: the usage message and exit status 1.
Usage ==
    /\ pc = "main"
    /\ argc < 2
    /\ stdout' = Append(stdout, "Usage: python3 analyze_nexus_logs.py /path/to/nexus.log")
    /\ exit_code' = 1
    /\ pc' = "exit"
    /\ UNCHANGED << argc, fs, f, line_num, match, format_type, ip_match, ip_calls,
                    counters >>

\* main calls analyze_logs, which creates the three empty tallies and prints
\* its two opening messages before it opens the file.
EnterAnalyze ==
    /\ pc = "main"
    /\ argc >= 2
    /\ repo_counter' = Empty
    /\ format_counter' = Empty
    /\ ip_format_counter' = Empty
    /\ stdout' = stdout \o << "Analyzing: <logfile>", "Processing..." >>
    /\ pc' = "open"
    /\ UNCHANGED << argc, fs, f, line_num, match, format_type, ip_match, ip_calls,
                    exit_code >>

\* A slip: the failure to open is swallowed and analyze_logs returns its empty
\* tallies to main.
OpenFail_swallowed ==
    /\ pc = "open"
    /\ fs # "ok"
    /\ stdout' = Append(stdout, " Done!")
    /\ pc' = "report"
    /\ UNCHANGED << argc, fs, f, line_num, match, format_type, ip_match, ip_calls,
                    counters, exit_code >>

\* open(logfile) raises: main's handlers print the error and exit with status 1.
OpenFail ==
    /\ pc = "open"
    /\ fs # "ok"
    /\ stdout' = Append(stdout, IF fs = "missing"
                                THEN "Error: File '<logfile>' not found"
                                ELSE "Error: <exception>")
    /\ exit_code' = 1
    /\ pc' = "exit"
    /\ UNCHANGED << argc, fs, f, line_num, match, format_type, ip_match, ip_calls,
                    counters >>

OpenOk ==
    /\ pc = "open"
    /\ fs = "ok"
    /\ pc' = "loop"
    /\ UNCHANGED << argc, fs, f, line_num, match, format_type, ip_match, ip_calls,
                    counters, stdout, exit_code >>

\* A slip: the client address is extracted before the request pattern is tried.
process_line_ip_first(line) ==
    /\ f' = Append(f, line)
    /\ line_num' = line_num + 1
    /\ stdout' = IF (line_num + 1) % ProgressEvery = 0
                 THEN Append(stdout, ".") ELSE stdout
    /\ \E m \in { request_pattern_search(line) } :
       \E im \in { ip_pattern_match(line) } :
          /\ match' = m
          /\ ip_match' = im
          /\ ip_calls' = ip_calls + 1
          /\ IF m.ok
             THEN \E ft \in { categorize_request(m.repo_name, m.user_agent,
                                                 m.request_path) } :
                     /\ repo_counter' = record_repository(repo_counter, m.repo_name)
                     /\ format_type' = ft
                     /\ format_counter' = record_format(format_counter, ft)
                     /\ ip_format_counter' =
                            IF im.ok
                            THEN record_client(ip_format_counter, ft, im.group1)
                            ELSE ip_format_counter
             ELSE UNCHANGED << format_type, counters >>
    /\ UNCHANGED << pc, argc, fs, exit_code >>

\* One iteration of the for loop of analyze_logs, on the next line of the file;
\* m, ft and im are its locals match, format_type and ip_match.
process_line(line) ==
    /\ f' = Append(f, line)
    /\ line_num' = line_num + 1
    /\ stdout' = IF (line_num + 1) % ProgressEvery = 0
                 THEN Append(stdout, ".") ELSE stdout
    /\ \E m \in { request_pattern_search(line) } :
          /\ match' = m
          /\ IF m.ok
             THEN \E ft \in { categorize_request(m.repo_name, m.user_agent,
                                                 m.request_path) } :
                  \E im \in { ip_pattern_match(line) } :
                     /\ repo_counter' = record_repository(repo_counter, m.repo_name)
                     /\ format_type' = ft
                     /\ format_counter' = record_format(format_counter, ft)
                     /\ ip_match' = im
                     /\ ip_calls' = ip_calls + 1
                     /\ ip_format_counter' =
                            IF im.ok
                            THEN record_client(ip_format_counter, ft, im.group1)
                            ELSE ip_format_counter
             ELSE UNCHANGED << format_type, ip_match, ip_calls, counters >>
    /\ UNCHANGED << pc, argc, fs, exit_code >>

ProcessLine ==
    /\ pc = "loop"
    /\ line_num < MaxLines
    /\ \E line \in Lines : process_line(line)

\* Reading the next line raises (a decoding or an I/O error): the exception
\* leaves analyze_logs and main's last handler prints it and exits with 1.
ReadError ==
    /\ pc = "loop"
    /\ stdout' = Append(stdout, "Error: <exception>")
    /\ exit_code' = 1
    /\ pc' = "exit"
    /\ UNCHANGED << argc, fs, f, line_num, match, format_type, ip_match, ip_calls,
                    counters >>

\* The file is exhausted: analyze_logs prints " Done!" and returns the tallies.
EndOfFile ==
    /\ pc = "loop"
    /\ stdout' = Append(stdout, " Done!")
    /\ pc' = "report"
    /\ UNCHANGED << argc, fs, f, line_num, match, format_type, ip_match, ip_calls,
                    counters, exit_code >>

\* The defaultdict after print_results has looked up ip_format_counter[format_type]
\* for every format whose count is positive.
top_ips_lookups(d, formats) ==
    [ x \in (DOMAIN d) \cup { k \in DOMAIN formats : formats[k] > 0 } |->
        IF x \in DOMAIN d THEN d[x] ELSE Empty ]

\* print_results, then main returns and the process exits with status 0.
PrintResults ==
    /\ pc = "report"
    /\ stdout' = stdout \o << "REPOSITORY ACCESS BREAKDOWN",
                              "PACKAGE FORMAT SUMMARY",
                              "TOP 3 CLIENTS PER PACKAGE FORMAT" >>
    /\ ip_format_counter' = top_ips_lookups(ip_format_counter, format_counter)
    /\ exit_code' = 0
    /\ pc' = "exit"
    /\ UNCHANGED << argc, fs, f, line_num, match, format_type, ip_match, ip_calls,
                    repo_counter, format_counter >>

Next ==
    \/ Usage
    \/ EnterAnalyze
    \/ OpenFail
    \/ OpenOk
    \/ ProcessLine
    \/ ReadError
    \/ EndOfFile
    \/ PrintResults

Spec == Init /\ [][Next]_vars

(* categorize_request on its own: the arguments are drawn at the start and the
   one step applies the function to them. *)

InitClassify ==
    /\ pc = "classify"
    /\ match \in [ ok : { TRUE }, method : { "GET" }, request_path : Paths,
                   repo_name : RepoNames, user_agent : UserAgents ]
    /\ argc = 2
    /\ fs = "ok"
    /\ f = << >>
    /\ line_num = 0
    /\ format_type = ""
    /\ ip_match = [ ok |-> FALSE, group1 |-> "" ]
    /\ ip_calls = 0
    /\ repo_counter = Empty
    /\ format_counter = Empty
    /\ ip_format_counter = Empty
    /\ stdout = << >>
    /\ exit_code = -1

Classify ==
    /\ pc = "classify"
    /\ format_type' = categorize_request(match.repo_name, match.user_agent,
                                         match.request_path)
    /\ pc' = "classified"
    /\ UNCHANGED << argc, fs, f, line_num, match, ip_match, ip_calls, counters,
                    stdout, exit_code >>

NextClassify == Classify

SpecClassify == InitClassify /\ [][NextClassify]_vars

-----------------------------------------------------------------------------
(* What the claims speak of. *)

\* The format labels, in the order the spec fixes.
FormatOrder == << "Maven", "npm", "Docker", "NuGet", "PyPI", "P2/Eclipse" >>

RuleOf(label) ==
    get_format_rules[CHOOSE k \in 1..Len(get_format_rules) :
                         get_format_rules[k].name = label]

Elems(seq) == { seq[k] : k \in 1..Len(seq) }

UserAgentTier(label, user_agent) ==
    \E p \in Elems(RuleOf(label).user_agents) : Contains(lower(p), lower(user_agent))
PathTier(label, request_path) ==
    \E p \in Elems(RuleOf(label).file_patterns) : Contains(lower(p), lower(request_path))
RepoTier(label, repo_name) ==
    \E p \in Elems(RuleOf(label).repo_patterns) : Contains(lower(p), lower(repo_name))

AnyTier(label, rec) ==
    \/ UserAgentTier(label, rec.user_agent)
    \/ PathTier(label, rec.request_path)
    \/ RepoTier(label, rec.repo_name)

\* m[k], 0 when k is no key of m.
CountOf(m, k) == IF k \in DOMAIN m THEN m[k] ELSE 0
\* d[k], the empty mapping when k is no key of d.
ClientsOf(d, k) == IF k \in DOMAIN d THEN d[k] ELSE Empty

\* What the request pattern extracts from each line of Lines, and the label
\* categorize_request gives the extracted record.
RequestOf == [ line \in Lines |-> request_pattern_search(line) ]
LabelOf ==
    [ line \in Lines |->
        categorize_request(RequestOf[line].repo_name, RequestOf[line].user_agent,
                           RequestOf[line].request_path) ]

\* The processed lines that match the request pattern.
MatchedLines == { i \in 1..Len(f) : RequestOf[f[i]].ok }

\* A step that processes one line: the line it processes.
LineStep == pc = "loop" /\ line_num' = line_num + 1
NewLine == f'[line_num + 1]

\* c is the leading non-whitespace token of the line.
LeadingToken(line, c) ==
    \E n \in 1..Len(line) :
        /\ c = SubSeq(line, 1, n)
        /\ \A i \in 1..n : ~IsSpace(Ch(line, i))
        /\ (n = Len(line) \/ IsSpace(Ch(line, n + 1)))

\* after is before with the count of key k raised by exactly 1 (from 0 when k
\* was absent) and nothing else changed.
BumpedBy1(before, after, k) ==
    /\ DOMAIN after = (DOMAIN before) \cup {k}
    /\ \A x \in DOMAIN after :
           after[x] = CountOf(before, x) + (IF x = k THEN 1 ELSE 0)

\* Every key of before is a key of after, with a count at least as large.
GrowsTo(before, after) ==
    /\ DOMAIN before \subseteq DOMAIN after
    /\ \A x \in DOMAIN before : before[x] <= after[x]

ExampleMavenLine ==
    "10.0.0.1 - - [1] \"GET /repository/internal-libs/com/foo/1.0/foo-1.0.jar HTTP/1.1\" 200 - 1024 5 \"Apache-Maven/3.8.1\" [qtp]\n"
LeadingSpaceLine ==
    " 10.0.0.2 - - [2] \"GET /repository/npm-proxy/lodash/-/lodash-4.17.21.tgz HTTP/1.1\" 200 - 512 3 \"npm/8.1.0\" [qtp]\n"
FaviconLine ==
    "10.0.0.1 - - [1] \"GET /favicon.ico HTTP/1.1\" 200 - 318 1 \"Mozilla/5.0\" [qtp]\n"

Tables == { "REPOSITORY ACCESS BREAKDOWN", "PACKAGE FORMAT SUMMARY",
            "TOP 3 CLIENTS PER PACKAGE FORMAT" }
Errors == { "Error: File '<logfile>' not found", "Error: <exception>" }

-----------------------------------------------------------------------------
(* The claims. *)

\* C1: categorize_request returns the earliest label, in the order Maven, npm,
\* Docker, NuGet, PyPI, P2/Eclipse, that has a matching tier (user-agent, path
\* or repository name), and Other exactly when no label has one; so a
\* repository name containing "maven" yields Maven even with a user-agent
\* containing "npm/", and "maven-npm-hybrid" with an empty user-agent yields Maven.
C1_EarliestLabelWins ==
    pc = "classified" =>
        LET hits == { k \in 1..Len(FormatOrder) : AnyTier(FormatOrder[k], match) }
        IN  /\ hits = {} => format_type = "Other"
            /\ hits # {} =>
                   format_type = FormatOrder[CHOOSE k \in hits : \A j \in hits : k <= j]
            /\ format_type = "Other" => hits = {}
            /\ ( /\ Contains("maven", lower(match.repo_name))
                 /\ Contains("npm/", lower(match.user_agent)) ) => format_type = "Maven"
            /\ (match.repo_name = "maven-npm-hybrid" /\ match.user_agent = "")
                   => format_type = "Maven"

\* C1's case: the repository tier of Maven beats the user-agent tier of npm.
C1_Witness ==
    /\ pc = "classified"
    /\ match.repo_name = "my-Maven"
    /\ match.user_agent = "npm/8.1.0"
    /\ match.request_path = "/x/readme.txt"
    /\ format_type = "Maven"

C3_FormatSumEqualsRepoSum ==
    SumValues(format_counter) = SumValues(repo_counter)

\* C3's case: several lines counted, one of them under Other.
C3_Witness ==
    /\ line_num >= 2
    /\ CountOf(format_counter, "Other") >= 1
    /\ Cardinality(DOMAIN format_counter) >= 2
    /\ SumValues(repo_counter) >= 2

\* C4: the repository counts sum to the number of processed lines that match
\* the request pattern, not to the number of lines.
C4_RepoSumEqualsMatchedLines ==
    SumValues(repo_counter) = Cardinality(MatchedLines)

\* C4's case: the same repository matched twice among lines that do not all match.
C4_Witness ==
    /\ Cardinality(MatchedLines) = 2
    /\ Len(f) = 3
    /\ \E r \in DOMAIN repo_counter : repo_counter[r] = 2

\* C5: processing a line the request pattern does not match changes none of
\* the three tallies, attempts no client-address extraction, raises no error
\* and leaves the loop running.
C5_UnmatchedLineChangesNothing ==
    [][ (LineStep /\ ~RequestOf[NewLine].ok) =>
            /\ UNCHANGED counters
            /\ ip_calls' = ip_calls
            /\ ip_match' = ip_match
            /\ exit_code' = exit_code
            /\ stdout' = stdout
            /\ pc' = "loop" ]_vars

\* C5's case: a line without a /repository/ segment processed after a counted line.
C5_Witness ==
    /\ pc = "loop"
    /\ line_num = 2
    /\ f[2] = FaviconLine
    /\ ~Contains("/repository/", f[2])
    /\ SumValues(repo_counter) = 1
    /\ ip_calls = 1

\* C6: when the file is missing or cannot be opened, no line is aggregated into
\* any tally, print_results is never called (no table is printed), and the run
\* ends with an error message and a non-zero exit status.
C6_UnreadableFileIsFatal ==
    (argc >= 2 /\ fs # "ok") =>
        /\ pc \in { "main", "open", "exit" }
        /\ line_num = 0
        /\ repo_counter = Empty /\ format_counter = Empty /\ ip_format_counter = Empty
        /\ Elems(stdout) \cap Tables = {}
        /\ exit_code # 0
        /\ pc = "exit" => /\ exit_code = 1
                          /\ stdout # << >>
                          /\ stdout[Len(stdout)] \in Errors
                          /\ fs = "missing" =>
                                 stdout[Len(stdout)] = "Error: File '<logfile>' not found"

\* C6's case: the run has ended on a file that could not be opened.
C6_Witness ==
    /\ pc = "exit"
    /\ argc = 2
    /\ fs = "denied"
    /\ exit_code = 1

\* C7: the tallies start empty, and from one state to the next no key of
\* repo_counter, format_counter or ip_format_counter (nested client keys
\* included) is removed and no count decreases.
C7_TalliesOnlyGrow ==
    /\ (repo_counter = Empty /\ format_counter = Empty /\ ip_format_counter = Empty)
    /\ [][ /\ GrowsTo(repo_counter, repo_counter')
           /\ GrowsTo(format_counter, format_counter')
           /\ DOMAIN ip_format_counter \subseteq DOMAIN ip_format_counter'
           /\ \A label \in DOMAIN ip_format_counter :
                  GrowsTo(ip_format_counter[label], ip_format_counter'[label]) ]_vars

\* C7's case: a format with two clients, one of them counted twice.
C7_Witness ==
    \E label \in DOMAIN ip_format_counter :
        /\ Cardinality(DOMAIN ip_format_counter[label]) = 2
        /\ \E c \in DOMAIN ip_format_counter[label] : ip_format_counter[label][c] = 2

\* C8: processing one line that matches the request pattern and begins with a
\* non-whitespace token c, with repository r and label L, raises
\* repo_counter[r], format_counter[L] and ip_format_counter[L][c] by exactly 1
\* each (from 0 when absent) and changes no other entry of the three tallies.
C8_MatchedLineCountsOnce ==
    [][ (LineStep /\ RequestOf[NewLine].ok /\ ~IsSpace(Ch(NewLine, 1))) =>
            LET r == RequestOf[NewLine].repo_name
                L == LabelOf[NewLine]
            IN  /\ BumpedBy1(repo_counter, repo_counter', r)
                /\ BumpedBy1(format_counter, format_counter', L)
                /\ DOMAIN ip_format_counter' = (DOMAIN ip_format_counter) \cup {L}
                /\ \A x \in (DOMAIN ip_format_counter') \ {L} :
                       ip_format_counter'[x] = ip_format_counter[x]
                /\ \E c \in DOMAIN ip_format_counter'[L] :
                       /\ LeadingToken(NewLine, c)
                       /\ BumpedBy1(ClientsOf(ip_format_counter, L),
                                    ip_format_counter'[L], c) ]_vars

\* C8's case: the spec's example line, processed twice.
C8_Witness ==
    /\ f = << ExampleMavenLine, ExampleMavenLine >>
    /\ repo_counter = [ x \in {"internal-libs"} |-> 2 ]
    /\ format_counter = [ x \in {"Maven"} |-> 2 ]
    /\ ip_format_counter = [ x \in {"Maven"} |-> [ c \in {"10.0.0.1"} |-> 2 ] ]

\* C9 as claimed: print_results leaves repo_counter, format_counter and
\* ip_format_counter unchanged, key sets included.
C9_ReporterOnlyReads ==
    [][ pc = "report" => UNCHANGED counters ]_vars

\* C10: every request whose lower-cased path contains ".jar" is classified
\* Maven, whatever its user-agent and repository name; P2/Eclipse is returned
\* only through its user-agent or repository-name tier, never its path tier,
\* and only when no tier of Maven, npm, Docker, NuGet or PyPI matches.
C10_P2PathTierUnreachable ==
    pc = "classified" =>
        /\ Contains(".jar", lower(match.request_path)) => format_type = "Maven"
        /\ PathTier("P2/Eclipse", match.request_path) => format_type = "Maven"
        /\ format_type = "P2/Eclipse" =>
               /\ ~PathTier("P2/Eclipse", match.request_path)
               /\ \/ UserAgentTier("P2/Eclipse", match.user_agent)
                  \/ RepoTier("P2/Eclipse", match.repo_name)
               /\ \A k \in 1..5 : ~AnyTier(FormatOrder[k], match)

\* C10's case: every signal says P2/Eclipse and the path ends in content.jar.
C10_Witness ==
    /\ pc = "classified"
    /\ match.request_path = "/x/content.jar"
    /\ match.user_agent = "p2/1.0"
    /\ match.repo_name = "p2-site"
    /\ format_type = "Maven"

====
